---------------------------- MODULE Spec2Model ----------------------------
(***************************************************************************)
(* Model of the obstacles-distance vision service                          *)
(* (src/obstacles-distance/obstacles-distance.go).                         *)
(*                                                                         *)
(* A point (r3.Vector) is a triple <<x, y, z>> of integers; the model's    *)
(* coordinates are finite, so every squared norm is below math.MaxFloat64. *)
(* A point cloud is the sequence of its points in the order in which       *)
(* cloud.Iterate hands them to the callback.                               *)
(*                                                                         *)
(* Three specifications:                                                   *)
(*   Spec        the service: Validate, construction, and the segmenter    *)
(*               (sequential acquisition, parallel reduction, merge);      *)
(*   SpecClosest getClosestPoint, one callback invocation per step;        *)
(*   SpecMedian  medianFromPointClouds on a list of clouds and on a        *)
(*               permutation of it.                                        *)
(***************************************************************************)
EXTENDS Integers, Sequences, FiniteSets

(***************************************************************************)
(* Bounds of the model.                                                    *)
(***************************************************************************)
\* largest num_queries with which the model runs an invocation
MaxRun == 3
\* largest number of worker groups utils.GroupWorkParallel may start
MaxGroups == 3
\* longest point cloud given to getClosestPoint in SpecClosest
MaxCloudLen == 4
\* longest list of clouds enumerated (with all its permutations) in SpecMedian
MaxClouds == 4

(***************************************************************************)
(* Program constants.                                                      *)
(***************************************************************************)
DefaultNumQueries == 10
MinNumQueries == 1
MaxNumQueries == 20

(***************************************************************************)
(* Points and clouds.                                                      *)
(***************************************************************************)
Origin == <<0, 0, 0>>

\* r3.Vector.Norm2
Norm2(p) == p[1] * p[1] + p[2] * p[2] + p[3] * p[3]

\* points of the clouds the model enumerates; <<1,0,0>> and <<0,1,0>> are
\* distinct points at the same squared distance
PointSet == { <<1, 0, 0>>, <<0, 1, 0>>, <<2, 0, 0>>, <<0, 2, 1>> }

Range(s) == { s[i] : i \in 1..Len(s) }

SeqsUpTo(S, n) == UNION { [1..k -> S] : k \in 0..n }

\* every squared norm that occurs in the model is below math.MaxFloat64
MaxFloat64 == 1 + 3 * 10 * 10

(***************************************************************************)
(* getClosestPoint: the callback given to cloud.Iterate, and the whole     *)
(* traversal.                                                              *)
(***************************************************************************)
closestInit == [minDistance |-> MaxFloat64, minPoint |-> Origin]

closestVisit_LessEq(acc, pt) ==
    LET dist == Norm2(pt)
    IN  IF dist <= acc.minDistance
        THEN [minDistance |-> dist, minPoint |-> pt]
        ELSE acc

closestVisit(acc, pt) ==
    LET dist == Norm2(pt)
    IN  IF dist < acc.minDistance
        THEN [minDistance |-> dist, minPoint |-> pt]
        ELSE acc

RECURSIVE closestFold(_, _, _)
closestFold(cloud, n, acc) ==
    IF n > Len(cloud) THEN acc
    ELSE closestFold(cloud, n + 1, closestVisit(acc, cloud[n]))

getClosestPoint(cloud) == closestFold(cloud, 1, closestInit).minPoint

(***************************************************************************)
(* sortVectors / points / getMedianPoint.  sort.Sort on a slice of fewer   *)
(* than 12 elements is an insertion sort driven by Less and Swap.          *)
(***************************************************************************)
Less(p, i, j) == Norm2(p[i]) < Norm2(p[j])

Swap(p, i, j) == [p EXCEPT ![i] = p[j], ![j] = p[i]]

RECURSIVE insertionInner(_, _)
insertionInner(p, j) ==
    IF j > 1 /\ Less(p, j, j - 1)
    THEN insertionInner(Swap(p, j, j - 1), j - 1)
    ELSE p

RECURSIVE insertionSort(_, _)
insertionSort(p, i) ==
    IF i > Len(p) THEN p ELSE insertionSort(insertionInner(p, i), i + 1)

sortVectors(v) == insertionSort(v, 2)

\* 0-based index of the median in a slice of n elements
medianIndex(n) == (n - 1) \div 2

getMedianPoint_Unsorted(pts) == pts[medianIndex(Len(pts)) + 1]

getMedianPoint_Upper(pts) == sortVectors(pts)[(Len(pts) \div 2) + 1]

getMedianPoint(pts) == sortVectors(pts)[medianIndex(Len(pts)) + 1]

(***************************************************************************)
(* Errors.  "nil" is no error.                                             *)
(***************************************************************************)
errNoPoints == "none of the input point clouds contained any points"
errEmptyList == "point cloud list is empty, could not find median point"
\* an error returned by utils.GroupWorkParallel, and one by pcToReturn.Set
errGroupWork == "group work failed"
errSet == "point cloud set failed"

\* medianFromPointClouds as a function of the list of clouds: the candidates
\* are the closest points of the clouds, in the order of the clouds (the
\* parallel reduction of Spec produces this list, see AllCloudsReducedOnce)
medianFromPointClouds(cl) ==
    LET candidates == [k \in 1..Len(cl) |-> getClosestPoint(cl[k])]
    IN  IF Len(candidates) = 0
        THEN [pt |-> Origin, err |-> errEmptyList]
        ELSE [pt |-> getMedianPoint(candidates), err |-> "nil"]

(***************************************************************************)
(* State.                                                                  *)
(***************************************************************************)
VARIABLES
    \* configuration and service life cycle
    rawNumQueries,   \* num_queries as configured
    NumQueries,      \* conf.NumQueries
    svc,             \* "config" | "rejected" | "validated" | "ready"
    \* one invocation of the segmenter
    pc,              \* position of the driver
    i,               \* loop counter of the acquisition loop
    clouds,          \* the collected non-empty clouds
    median,          \* result of medianFromPointClouds
    ret,             \* what the segmenter returns: [objects, err]
    \* utils.GroupWorkParallel and its callbacks
    numGroups,       \* number of worker groups
    part,            \* part[g] .. part[g+1]-1: the work numbers of group g
    wk,              \* position of each worker
    workNum,         \* next work number of each worker
    closestPoints,   \* the list each worker's closure owns
    results,         \* one slot per group
    gwErr,           \* what GroupWorkParallel returned
    \* history of the invocation
    calls,           \* NextPointCloud calls started
    returned,        \* NextPointCloud calls that returned
    failedAt,        \* number of the call that failed, 0 if none
    failErr,         \* the error of that call
    emptySeen,       \* empty clouds returned by the camera
    acquiredPoints,  \* all points of all clouds returned by the camera
    processed,       \* per work number: the groups that reduced it, with multiplicity
    slotWriters,     \* per slot of results: the groups that wrote it
    reducerInputs,   \* the clouds handed to getClosestPoint
    \* getClosestPoint, step by step (SpecClosest)
    c_pc, c_cloud, c_idx, c_acc, c_visits, c_ret,
    \* medianFromPointClouds on a list and a permutation of it (SpecMedian)
    m_pc, m_clouds, m_perm, m_ret, m_retPerm

svcVars == <<rawNumQueries, NumQueries, svc>>
drvVars == <<pc, i, clouds, median, ret>>
gwVars == <<numGroups, part, wk, workNum, closestPoints, results, gwErr>>
histVars == <<calls, returned, failedAt, failErr, emptySeen, acquiredPoints,
              processed, slotWriters, reducerInputs>>
pipeVars == <<svcVars, drvVars, gwVars, histVars>>
closestVars == <<c_pc, c_cloud, c_idx, c_acc, c_visits, c_ret>>
medianVars == <<m_pc, m_clouds, m_perm, m_ret, m_retPerm>>
vars == <<pipeVars, closestVars, medianVars>>

(***************************************************************************)
(* Inputs.                                                                 *)
(***************************************************************************)
\* configured values of num_queries: unset (0), negative, small, the default,
\* and around the upper limit
CfgInputs == (-1 .. MaxRun) \cup {DefaultNumQueries}
             \cup (MaxNumQueries - 1 .. MaxNumQueries + 1)

\* what one NextPointCloud call can return
CloudChoices == { <<>>,
                  << <<1, 0, 0>> >>,
                  << <<2, 0, 0>>, <<0, 1, 0>> >>,
                  << <<0, 2, 1>>, <<2, 0, 0>> >> }

AcqErrors == { "camera timeout", "camera closed" }

AcqOutcomes == { [cloud |-> c, err |-> "nil"] : c \in CloudChoices }
               \cup { [cloud |-> <<>>, err |-> e] : e \in AcqErrors }

Groups == 0 .. numGroups - 1

NoGroups == [g \in {} |-> 0]

(***************************************************************************)
(* Configuration: DistanceDetectorConfig.Validate, then the constructor.   *)
(* The resource framework validates a configuration before it constructs   *)
(* the service from it, and constructs nothing from a rejected one.        *)
(***************************************************************************)
\* the value of config.NumQueries after the defaulting of Validate
defaulted(n) == IF n = 0 THEN DefaultNumQueries ELSE n

\* the range check of Validate
invalidQueries_NoLower(n) == n > MaxNumQueries

invalidQueries_NoUpper(n) == n < MinNumQueries

invalidQueries(n) == n < MinNumQueries \/ n > MaxNumQueries

Validate ==
    /\ svc = "config"
    /\ NumQueries' = defaulted(NumQueries)
    /\ svc' = IF invalidQueries(NumQueries') THEN "rejected" ELSE "validated"
    /\ UNCHANGED <<rawNumQueries, drvVars, gwVars, histVars, closestVars, medianVars>>

\* registerObstacleDistanceDetector: builds the segmenter closure over conf
Construct ==
    /\ svc = "validated"
    /\ svc' = "ready"
    /\ UNCHANGED <<rawNumQueries, NumQueries, drvVars, gwVars, histVars,
                   closestVars, medianVars>>

(***************************************************************************)
(* The segmenter: acquisition loop.                                        *)
(***************************************************************************)
NoRet == [objects |-> <<>>, err |-> "nil"]

\* entry of the segmenter: clouds := make(..., 0, conf.NumQueries); i := 0
Invoke ==
    /\ svc = "ready"
    /\ pc = "idle"
    /\ NumQueries <= MaxRun
    /\ pc' = IF NumQueries < 0 THEN "panic" ELSE "loop"
    /\ i' = 0
    /\ clouds' = <<>>
    /\ median' = Origin
    /\ ret' = NoRet
    /\ numGroups' = 0
    /\ part' = NoGroups
    /\ wk' = NoGroups
    /\ workNum' = NoGroups
    /\ closestPoints' = NoGroups
    /\ results' = NoGroups
    /\ gwErr' = "nil"
    /\ calls' = 0
    /\ returned' = 0
    /\ failedAt' = 0
    /\ failErr' = "nil"
    /\ emptySeen' = 0
    /\ acquiredPoints' = {}
    /\ processed' = <<>>
    /\ slotWriters' = NoGroups
    /\ reducerInputs' = {}
    /\ UNCHANGED <<svcVars, closestVars, medianVars>>

\* the loop condition i < conf.NumQueries
loopCond_OffByOne(k, n) == k <= n

loopCond(k, n) == k < n

\* the loop condition holds: src.NextPointCloud(ctx) is called
CallNextPointCloud ==
    /\ pc = "loop"
    /\ loopCond(i, NumQueries)
    /\ pc' = "call"
    /\ calls' = calls + 1
    /\ UNCHANGED <<svcVars, i, clouds, median, ret, gwVars, returned, failedAt,
                   failErr, emptySeen, acquiredPoints, processed, slotWriters,
                   reducerInputs, closestVars, medianVars>>

\* the body of the loop after NextPointCloud returned out
loopBody_NoSkip(cl, out) ==
    IF out.err # "nil"
    THEN [pc |-> "done", clouds |-> cl, ret |-> [objects |-> <<>>, err |-> out.err]]
    ELSE [pc |-> "loop", clouds |-> Append(cl, out.cloud), ret |-> NoRet]

loopBody_SwallowErr(cl, out) ==
    IF out.err # "nil" \/ Len(out.cloud) = 0
    THEN [pc |-> "loop", clouds |-> cl, ret |-> NoRet]
    ELSE [pc |-> "loop", clouds |-> Append(cl, out.cloud), ret |-> NoRet]

loopBody(cl, out) ==
    IF out.err # "nil"
    THEN [pc |-> "done", clouds |-> cl, ret |-> [objects |-> <<>>, err |-> out.err]]
    ELSE IF Len(out.cloud) = 0
    THEN [pc |-> "loop", clouds |-> cl, ret |-> NoRet]
    ELSE [pc |-> "loop", clouds |-> Append(cl, out.cloud), ret |-> NoRet]

\* NextPointCloud returns; the rest of the iteration, and i++ unless it returns
NextPointCloudReturns ==
    /\ pc = "call"
    /\ \E out \in AcqOutcomes :
          LET b == loopBody(clouds, out)
          IN  /\ pc' = b.pc
              /\ clouds' = b.clouds
              /\ ret' = b.ret
              /\ i' = IF b.pc = "loop" THEN i + 1 ELSE i
              /\ returned' = returned + 1
              /\ failedAt' = IF out.err # "nil" THEN calls ELSE failedAt
              /\ failErr' = IF out.err # "nil" THEN out.err ELSE failErr
              /\ emptySeen' = IF out.err = "nil" /\ Len(out.cloud) = 0
                              THEN emptySeen + 1 ELSE emptySeen
              /\ acquiredPoints' = acquiredPoints \cup Range(out.cloud)
    /\ UNCHANGED <<svcVars, median, gwVars, calls, processed, slotWriters,
                   reducerInputs, closestVars, medianVars>>

\* after the loop: fail when nothing was collected, else medianFromPointClouds
afterLoop_NoCheck(cl) == [pc |-> "median", ret |-> NoRet]

afterLoop(cl) ==
    IF Len(cl) = 0
    THEN [pc |-> "done", ret |-> [objects |-> <<>>, err |-> errNoPoints]]
    ELSE [pc |-> "median", ret |-> NoRet]

LoopExit ==
    /\ pc = "loop"
    /\ ~loopCond(i, NumQueries)
    /\ pc' = afterLoop(clouds).pc
    /\ ret' = afterLoop(clouds).ret
    /\ UNCHANGED <<svcVars, i, clouds, median, gwVars, histVars, closestVars,
                   medianVars>>

(***************************************************************************)
(* medianFromPointClouds: utils.GroupWorkParallel with its callbacks.      *)
(* GroupWorkParallel splits the work numbers 0 .. totalSize-1 into         *)
(* numGroups contiguous ranges [from, to), runs each range in a goroutine  *)
(* of its own (groupWork once, memberWork per work number, then the        *)
(* group's done function), and returns when all goroutines have ended.     *)
(* The number of groups depends on the machine, so the model takes every   *)
(* number up to MaxGroups and every split into contiguous ranges.          *)
(***************************************************************************)
Partitions(n, ng) ==
    { p \in [0..ng -> 0..n] :
        /\ p[0] = 0
        /\ p[ng] = n
        /\ \A g \in 0..(ng - 1) : p[g] <= p[g + 1] }

AllFinished == \A g \in Groups : wk[g] = "finished"

\* the call of GroupWorkParallel up to the start of the goroutines; the
\* before callback makes results, one nil slot per group
StartGroupWork ==
    /\ pc = "median"
    /\ \E ng \in 1..MaxGroups :
         \E p \in Partitions(Len(clouds), ng) :
            /\ numGroups' = ng
            /\ part' = p
            /\ results' = [g \in 0..(ng - 1) |-> <<>>]
            /\ wk' = [g \in 0..(ng - 1) |-> "spawned"]
            /\ workNum' = [g \in 0..(ng - 1) |-> p[g]]
            /\ closestPoints' = [g \in 0..(ng - 1) |-> <<>>]
            /\ slotWriters' = [g \in 0..(ng - 1) |-> {}]
    /\ processed' = [k \in 1..Len(clouds) |-> <<>>]
    /\ pc' = "wait"
    /\ UNCHANGED <<svcVars, i, clouds, median, ret, gwErr, calls, returned,
                   failedAt, failErr, emptySeen, acquiredPoints, reducerInputs,
                   closestVars, medianVars>>

\* groupWork(groupNum, groupSize, from, to): closestPoints := make(..., 0, groupSize)
GroupWork(g) ==
    /\ pc = "wait"
    /\ wk[g] = "spawned"
    /\ closestPoints' = [closestPoints EXCEPT ![g] = <<>>]
    /\ wk' = [wk EXCEPT ![g] = "working"]
    /\ UNCHANGED <<svcVars, drvVars, numGroups, part, workNum, results, gwErr,
                   histVars, closestVars, medianVars>>

\* memberWork(memberNum, workNum)
MemberWork(g) ==
    /\ pc = "wait"
    /\ wk[g] = "working"
    /\ workNum[g] < part[g + 1]
    /\ LET cloud == clouds[workNum[g] + 1]
           closestPoint == getClosestPoint(cloud)
       IN  /\ closestPoints' = [closestPoints EXCEPT ![g] = Append(@, closestPoint)]
           /\ reducerInputs' = reducerInputs \cup {cloud}
    /\ processed' = [processed EXCEPT ![workNum[g] + 1] = Append(@, g)]
    /\ workNum' = [workNum EXCEPT ![g] = @ + 1]
    /\ UNCHANGED <<svcVars, drvVars, numGroups, part, wk, results, gwErr, calls,
                   returned, failedAt, failErr, emptySeen, acquiredPoints,
                   slotWriters, closestVars, medianVars>>

\* the group's done function: results[groupNum] = closestPoints
GroupDone_Slot0(g) ==
    /\ pc = "wait"
    /\ wk[g] = "working"
    /\ workNum[g] >= part[g + 1]
    /\ results' = [results EXCEPT ![0] = closestPoints[g]]
    /\ slotWriters' = [slotWriters EXCEPT ![0] = @ \cup {g}]
    /\ wk' = [wk EXCEPT ![g] = "finished"]
    /\ UNCHANGED <<svcVars, drvVars, numGroups, part, workNum, closestPoints,
                   gwErr, calls, returned, failedAt, failErr, emptySeen,
                   acquiredPoints, processed, reducerInputs, closestVars,
                   medianVars>>

GroupDone(g) ==
    /\ pc = "wait"
    /\ wk[g] = "working"
    /\ workNum[g] >= part[g + 1]
    /\ results' = [results EXCEPT ![g] = closestPoints[g]]
    /\ slotWriters' = [slotWriters EXCEPT ![g] = @ \cup {g}]
    /\ wk' = [wk EXCEPT ![g] = "finished"]
    /\ UNCHANGED <<svcVars, drvVars, numGroups, part, workNum, closestPoints,
                   gwErr, calls, returned, failedAt, failErr, emptySeen,
                   acquiredPoints, processed, reducerInputs, closestVars,
                   medianVars>>

\* GroupWorkParallel returns to medianFromPointClouds, with or without an error
GroupWorkReturns ==
    /\ pc = "wait"
    /\ AllFinished
    /\ \E e \in {"nil", errGroupWork} : gwErr' = e
    /\ pc' = "joined"
    /\ UNCHANGED <<svcVars, i, clouds, median, ret, numGroups, part, wk, workNum,
                   closestPoints, results, histVars, closestVars, medianVars>>

\* candidates: the slots of results appended in the order of the groups
RECURSIVE concatResults(_, _)
concatResults(r, g) ==
    IF g < 0 THEN <<>> ELSE concatResults(r, g - 1) \o r[g]

candidatesOf(r, ng) == concatResults(r, ng - 1)

\* the rest of medianFromPointClouds, and the segmenter's check of its error
Merge ==
    /\ pc = "joined"
    /\ LET candidates == candidatesOf(results, numGroups)
       IN  IF gwErr # "nil"
           THEN /\ pc' = "done"
                /\ ret' = [objects |-> <<>>, err |-> gwErr]
                /\ median' = median
           ELSE IF Len(candidates) = 0
           THEN /\ pc' = "done"
                /\ ret' = [objects |-> <<>>, err |-> errEmptyList]
                /\ median' = median
           ELSE /\ pc' = "wrap"
                /\ ret' = ret
                /\ median' = getMedianPoint(candidates)
    /\ UNCHANGED <<svcVars, i, clouds, gwVars, histVars, closestVars, medianVars>>

\* the obstacle object: pcToReturn.Set(vector, basicData) and the one-element result
Wrap ==
    /\ pc = "wrap"
    /\ \E e \in {"nil", errSet} :
          ret' = IF e = "nil"
                 THEN [objects |-> <<median>>, err |-> "nil"]
                 ELSE [objects |-> <<>>, err |-> e]
    /\ pc' = "done"
    /\ UNCHANGED <<svcVars, i, clouds, median, gwVars, histVars, closestVars,
                   medianVars>>

\* the caller has the result; the service is ready for the next invocation
Finish ==
    /\ pc = "done"
    /\ pc' = "idle"
    /\ UNCHANGED <<svcVars, i, clouds, median, ret, gwVars, histVars,
                   closestVars, medianVars>>

(***************************************************************************)
(* Spec: the service.                                                      *)
(***************************************************************************)
DriverIdle ==
    /\ pc = "idle"
    /\ i = 0
    /\ clouds = <<>>
    /\ median = Origin
    /\ ret = NoRet
    /\ numGroups = 0
    /\ part = NoGroups
    /\ wk = NoGroups
    /\ workNum = NoGroups
    /\ closestPoints = NoGroups
    /\ results = NoGroups
    /\ gwErr = "nil"
    /\ calls = 0
    /\ returned = 0
    /\ failedAt = 0
    /\ failErr = "nil"
    /\ emptySeen = 0
    /\ acquiredPoints = {}
    /\ processed = <<>>
    /\ slotWriters = NoGroups
    /\ reducerInputs = {}

ClosestIdle ==
    /\ c_pc = "off"
    /\ c_cloud = <<>>
    /\ c_idx = 0
    /\ c_acc = closestInit
    /\ c_visits = <<>>
    /\ c_ret = Origin

MedianIdle ==
    /\ m_pc = "off"
    /\ m_clouds = <<>>
    /\ m_perm = <<>>
    /\ m_ret = [pt |-> Origin, err |-> "nil"]
    /\ m_retPerm = [pt |-> Origin, err |-> "nil"]

Init ==
    /\ rawNumQueries \in CfgInputs
    /\ NumQueries = rawNumQueries
    /\ svc = "config"
    /\ DriverIdle
    /\ ClosestIdle
    /\ MedianIdle

Next ==
    \/ Validate
    \/ Construct
    \/ Invoke
    \/ CallNextPointCloud
    \/ NextPointCloudReturns
    \/ LoopExit
    \/ StartGroupWork
    \/ \E g \in Groups : GroupWork(g)
    \/ \E g \in Groups : MemberWork(g)
    \/ \E g \in Groups : GroupDone(g)
    \/ GroupWorkReturns
    \/ Merge
    \/ Wrap
    \/ Finish

Spec == Init /\ [][Next]_vars

(***************************************************************************)
(* SpecClosest: getClosestPoint on every cloud of up to MaxCloudLen        *)
(* points, one call of the Iterate callback per step.                      *)
(***************************************************************************)
PipelineOff ==
    /\ rawNumQueries = 0
    /\ NumQueries = 0
    /\ svc = "off"
    /\ DriverIdle

InitClosest ==
    /\ c_cloud \in SeqsUpTo(PointSet, MaxCloudLen)
    /\ c_pc = "iterate"
    /\ c_idx = 0
    /\ c_acc = closestInit
    /\ c_visits = [k \in 1..Len(c_cloud) |-> 0]
    /\ c_ret = Origin
    /\ PipelineOff
    /\ MedianIdle

\* cloud.Iterate hands the next point to the callback
ClosestVisit ==
    /\ c_pc = "iterate"
    /\ c_idx < Len(c_cloud)
    /\ c_acc' = closestVisit(c_acc, c_cloud[c_idx + 1])
    /\ c_visits' = [c_visits EXCEPT ![c_idx + 1] = @ + 1]
    /\ c_idx' = c_idx + 1
    /\ UNCHANGED <<c_pc, c_cloud, c_ret, pipeVars, medianVars>>

\* Iterate is through: return minPoint
ClosestReturn ==
    /\ c_pc = "iterate"
    /\ c_idx >= Len(c_cloud)
    /\ c_ret' = c_acc.minPoint
    /\ c_pc' = "done"
    /\ UNCHANGED <<c_cloud, c_idx, c_acc, c_visits, pipeVars, medianVars>>

NextClosest == ClosestVisit \/ ClosestReturn

SpecClosest == InitClosest /\ [][NextClosest]_vars

(***************************************************************************)
(* SpecMedian: medianFromPointClouds on a list of non-empty clouds and on  *)
(* a permutation of the list.                                              *)
(***************************************************************************)
NonEmptyClouds == { c \in CloudChoices : Len(c) > 0 }

\* three clouds whose closest points are at squared distances 9, 1, 4
Scenario3 == << << <<3, 0, 0>> >>, << <<1, 0, 0>> >>, << <<2, 0, 0>> >> >>

\* ten clouds of one point each, at distances 1 .. 10
Scenario10 == [d \in 1..10 |-> << <<d, 0, 0>> >>]

CloudLists == (SeqsUpTo(NonEmptyClouds, MaxClouds) \ {<<>>})
              \cup {Scenario3, Scenario10}

Bijections(n) == { f \in [1..n -> 1..n] : \A a, b \in 1..n : f[a] = f[b] => a = b }

Reverse(s) == [k \in 1..Len(s) |-> s[Len(s) + 1 - k]]

\* the orders in which the same clouds are given: all of them for a short
\* list, the list and its reverse for a long one
PermsOf(s) ==
    IF Len(s) <= MaxClouds
    THEN { [k \in 1..Len(s) |-> s[f[k]]] : f \in Bijections(Len(s)) }
    ELSE { s, Reverse(s) }

InitMedian ==
    /\ m_clouds \in CloudLists
    /\ m_perm \in PermsOf(m_clouds)
    /\ m_pc = "start"
    /\ m_ret = [pt |-> Origin, err |-> "nil"]
    /\ m_retPerm = [pt |-> Origin, err |-> "nil"]
    /\ PipelineOff
    /\ ClosestIdle

MedianOfList ==
    /\ m_pc = "start"
    /\ m_ret' = medianFromPointClouds(m_clouds)
    /\ m_pc' = "first"
    /\ UNCHANGED <<m_clouds, m_perm, m_retPerm, pipeVars, closestVars>>

MedianOfPerm ==
    /\ m_pc = "first"
    /\ m_retPerm' = medianFromPointClouds(m_perm)
    /\ m_pc' = "done"
    /\ UNCHANGED <<m_clouds, m_perm, m_ret, pipeVars, closestVars>>

NextMedian == MedianOfList \/ MedianOfPerm

SpecMedian == InitMedian /\ [][NextMedian]_vars

(***************************************************************************)
(* Properties.                                                             *)
(***************************************************************************)

\* C1: when the k-th NextPointCloud call of an invocation fails, the
\* invocation is over with exactly that error and no object, the k-th call
\* is the last call made, and no reduction was started; whatever the
\* earlier calls returned.
AcquisitionFailureAborts ==
    failedAt # 0 =>
        /\ pc \in {"done", "idle"}
        /\ failErr \in AcqErrors
        /\ ret = [objects |-> <<>>, err |-> failErr]
        /\ calls = failedAt
        /\ returned = failedAt
        /\ failedAt \in 1..NumQueries
        /\ numGroups = 0

AcquisitionFailureWitness ==
    /\ pc = "done"
    /\ NumQueries = 3
    /\ failedAt = 3
    /\ emptySeen = 1
    /\ Len(clouds) = 1
    /\ ret.err = "camera closed"

\* C2: at most one NextPointCloud call is in flight, the reduction starts
\* only after exactly NumQueries calls were made and have returned, and an
\* invocation in which no call failed ends after exactly NumQueries calls,
\* each of which returned an empty cloud or a collected one.
ExactlyNumQueriesSequential ==
    /\ calls - returned \in {0, 1}
    /\ (calls - returned = 1) <=> (pc = "call")
    /\ pc \in {"median", "wait", "joined", "wrap"} =>
          /\ failedAt = 0
          /\ calls = NumQueries
          /\ returned = NumQueries
    /\ numGroups > 0 => (failedAt = 0 /\ returned = NumQueries)
    /\ (pc = "done" /\ failedAt = 0) =>
          /\ calls = NumQueries
          /\ returned = NumQueries
          /\ Len(clouds) + emptySeen = NumQueries

ExactlyNumQueriesWitness ==
    /\ pc = "wait"
    /\ NumQueries = 3
    /\ calls = 3
    /\ emptySeen = 1
    /\ Len(clouds) = 2

\* C3: an invocation in which no call failed ends with the error "none of
\* the input point clouds contained any points" and no object exactly when
\* every call returned an empty cloud; that error is no acquisition error,
\* and an empty cloud between non-empty ones raises nothing.
NoUsableSamples ==
    /\ errNoPoints \notin AcqErrors
    /\ (pc = "done" /\ failedAt = 0 /\ emptySeen = returned) =>
          ret = [objects |-> <<>>, err |-> errNoPoints]
    /\ (pc = "done" /\ failedAt = 0 /\ emptySeen < returned) =>
          ret.err # errNoPoints
    /\ (pc = "done" /\ failedAt # 0) => ret.err # errNoPoints
    /\ pc \in {"median", "wait", "joined", "wrap"} => emptySeen < returned

NoUsableSamplesWitness ==
    /\ pc = "done"
    /\ NumQueries = 2
    /\ emptySeen = 2
    /\ failedAt = 0
    /\ ret.err = errNoPoints

AllCloudsReducedOnce ==
    /\ \A k \in DOMAIN processed :
          /\ Len(processed[k]) <= 1
          /\ \A n \in 1..Len(processed[k]) :
                LET g == processed[k][n]
                IN  g \in Groups /\ part[g] <= k - 1 /\ k - 1 < part[g + 1]
    /\ \A g \in Groups :
          /\ slotWriters[g] \subseteq {g}
          /\ (wk[g] # "finished") => (results[g] = <<>> /\ slotWriters[g] = {})
          /\ (wk[g] = "finished") => (results[g] = closestPoints[g])
          /\ closestPoints[g] =
                [n \in 1..(workNum[g] - part[g]) |->
                    getClosestPoint(clouds[part[g] + n])]
    /\ pc \in {"joined", "wrap"} =>
          /\ AllFinished
          /\ \A k \in 1..Len(clouds) : Len(processed[k]) = 1
          /\ candidatesOf(results, numGroups) =
                [k \in 1..Len(clouds) |-> getClosestPoint(clouds[k])]
          /\ Len(candidatesOf(results, numGroups)) = Len(clouds)
          /\ Len(clouds) <= NumQueries
    /\ pc = "wrap" => median = medianFromPointClouds(clouds).pt

AllCloudsReducedWitness ==
    /\ pc = "joined"
    /\ numGroups = 3
    /\ Len(clouds) = 3
    /\ \A g \in Groups : Len(results[g]) = 1
    /\ emptySeen = 0

candidatesFrom(cl) == [k \in 1..Len(cl) |-> getClosestPoint(cl[k])]

TieAmong(cand) ==
    \E a, b \in 1..Len(cand) : cand[a] # cand[b] /\ Norm2(cand[a]) = Norm2(cand[b])

\* C5 as stated: the selected point is the same for every order of the
\* clouds, also when distinct candidates are at the same squared distance.
OrderInvariantPoint ==
    m_pc = "done" => m_ret = m_retPerm

\* C5 amended: for every order of the clouds the selected point is at the
\* same squared distance from the origin, and it is the same point when no
\* two distinct candidates are at the same squared distance.
OrderInvariantDistance ==
    m_pc = "done" =>
        /\ m_ret.err = "nil" /\ m_retPerm.err = "nil"
        /\ Norm2(m_ret.pt) = Norm2(m_retPerm.pt)
        /\ ~TieAmong(candidatesFrom(m_clouds)) => m_ret = m_retPerm

OrderInvariantWitness ==
    /\ m_pc = "done"
    /\ m_perm # m_clouds
    /\ Len(m_clouds) = 3
    /\ TieAmong(candidatesFrom(m_clouds))
    /\ m_ret.pt # m_retPerm.pt
    /\ Norm2(m_ret.pt) = Norm2(m_retPerm.pt)

=============================================================================
